---- MODULE Spec2Model ----
(***************************************************************************)
(* dhCodex (src/src_cpp/dhCodex.hpp): a process-wide mapping from UUID     *)
(* strings to owned Things, one std::mutex (the gate), and for every       *)
(* operation a locking form and an "__unsafe" form that does not lock.     *)
(*                                                                         *)
(* A call is modelled as the steps the code takes: lock, the body (whose   *)
(* destructors may call the __unsafe forms again, so each thread carries   *)
(* a stack of frames), unlock.                                             *)
(***************************************************************************)
EXTENDS Integers, Sequences, FiniteSets, TLC

\* ---------------------------------------------------------------- bounds
NThreads == 2      \* threads using the codex
MaxThings == 2     \* Things constructed in a run
MaxRel == 1        \* calls into the codex a subclass destructor makes

\* ------------------------------------------------------------- constants
nullptr == 0       \* "no Thing"; handles are 1..Len(things)
Free == 0          \* the mutex is unlocked; otherwise the owning thread
EmptyUuid == 0     \* the string "" that _new_uuid returns on failure
SUCCESS == 0
FAILURE == 1
OutOfRange == -1    \* std::out_of_range thrown by map::at
Undeclared == -2    \* "no result": the call names a function declared nowhere

Threads == 1..NThreads
Handles == 1..MaxThings
Uuids == 0..MaxThings

\* The kind lattice: Thing is the root; Parent and Child are the
\* subclasses the header's introduction describes.
Kinds == {"Thing", "Parent", "Child"}

VARIABLES
  things,    \* the Things constructed so far: handle -> [uuid, kind]
  life,      \* handle -> "made" | "owned" | "dying" | "dead", or "again"
             \* when the destructor has been started a second time
  mapping,   \* _get_mapping(): uuid -> handle of the owned Thing
  gate,      \* _get_mutex(): Free or the thread that locked it
  count,     \* the mapping's node count, which size() returns
  build,     \* the platform and standard library the header is built with
  pc,        \* thread -> "idle" | "run" | "ret" | "blocked" | "crash"
  op,        \* thread -> the top-level call in progress
  stack,     \* thread -> frames of the calls in progress, innermost last
  ret,       \* thread -> the value the finished body returns
  casc,      \* thread -> uuids erased by nested removes of this call
  nIns,      \* inserts performed
  nRemOK,    \* removes that returned SUCCESS
  before     \* the codex as the latest add found it, while nothing but a
             \* remove of the added uuid has been called since

vars == <<things, life, mapping, count, gate, build, pc, op, stack, ret, casc,
          nIns, nRemOK, before>>

\* No add to go back to.
NoAdd == [h |-> nullptr, mapping |-> <<>>, size |-> 0]

NoOp == [fn |-> "none", gated |-> FALSE, x |-> 0, k |-> "Thing", pre |-> 0]

\* ------------------------------------------------------- pure functions

\* A cast that does not look at the object's class (static_cast<K*>).
static_cast_ok(kind, K) == TRUE

\* dynamic_cast<K*> succeeds when the object's class is K or derives
\* from it.
IsA(kind, K) == kind = K \/ K = "Thing"

dynamic_cast(K, h) ==
  IF h # nullptr /\ IsA(things[h].kind, K) THEN h ELSE nullptr

\* A lookup that settles for a neighbouring key (lower_bound or
\* upper_bound without the test for equality).
find_nearest(u) ==
  IF u \in DOMAIN mapping THEN mapping[u]
  ELSE IF DOMAIN mapping = {} THEN nullptr
  ELSE mapping[CHOOSE k \in DOMAIN mapping : TRUE]

\* _mapping->find(uuid), then it->second.get()
find(u) == IF u \in DOMAIN mapping THEN mapping[u] ELSE nullptr

find_one_by_uuid__unsafe(K, u) == dynamic_cast(K, find(u))

get__unsafe(K, u) ==
  LET result == find_one_by_uuid__unsafe("Thing", u)
  IN  IF result # nullptr THEN dynamic_cast(K, result) ELSE nullptr

\* _get_mapping()->size(): the node count, a size_t. The model keeps its
\* two's-complement value, so 2^64 - 1 reads -1.
size__unsafe == count

\* The keys in std::map's iteration order (ascending).
Sorted(S) ==
  CHOOSE s \in [1..Cardinality(S) -> S] :
    \A i, j \in 1..Cardinality(S) : i < j => s[i] < s[j]

\* get_repr of a Thing: the class name and the uuid.
get_repr(h) == [name |-> things[h].kind, uuid |-> things[h].uuid]

\* A listing whose loop stops one entry early.
list_all_but_last ==
  LET keys == Sorted(DOMAIN mapping)
  IN  <<"line", "Codex:">>
      \o [i \in 1..(Len(keys) - 1) |->
            [key |-> keys[i], repr |-> get_repr(mapping[keys[i]])]]
      \o <<"line">>

\* list_entries__unsafe: the frame line, the header, a row per entry, the
\* frame line.
list_entries__unsafe ==
  LET keys == Sorted(DOMAIN mapping)
  IN  <<"line", "Codex:">>
      \o [i \in DOMAIN keys |->
            [key |-> keys[i], repr |-> get_repr(mapping[keys[i]])]]
      \o <<"line">>

\* The builds the #if chain of lines 75-133 and the standard library
\* give: _WIN32 with the MSVC library, __linux__ with libstdc++ or libc++.
Builds == {"msvc", "libstdc++", "libc++"}

\* Only the _WIN32 _new_uuid has a failure path (it returns "").
MintCanFail == build = "msvc"

\* map::erase(key) erases the range equal_range(key); libstdc++ and MSVC,
\* finding this range to be the whole map, call clear(), which destroys
\* the nodes in place and resets the tree and the count afterwards.
ErasesByClear(u) == build \in {"libstdc++", "msvc"} /\ DOMAIN mapping = {u}

\* Erasing one node, libstdc++ takes it out of the tree, destroys it and
\* then decrements the count; libc++ and MSVC decrement before they
\* destroy.
CountsLate == build = "libstdc++"

Top(th) == stack[th][Len(stack[th])]
Pop(th) == SubSeq(stack[th], 1, Len(stack[th]) - 1)
Frame(fn, x) == [fn |-> fn, x |-> x, at |-> 1]
Nested(th) == Len(stack[th]) > 1
Alive == \A t \in Threads : pc[t] # "crash"

\* The discipline the __unsafe forms ask of their caller: outside a
\* destructor they run only while no other thread uses the codex.
Quiet == \A o \in Threads : pc[o] = "idle"
NoneUnsafe == \A o \in Threads : pc[o] # "idle" => op[o].gated

\* ------------------------------------------------------------------ Init

Init ==
  /\ things = <<>>
  /\ life = <<>>
  /\ mapping = <<>>
  /\ gate = Free
  /\ count = 0
  /\ build \in Builds
  /\ pc = [t \in Threads |-> "idle"]
  /\ op = [t \in Threads |-> NoOp]
  /\ stack = [t \in Threads |-> <<>>]
  /\ ret = [t \in Threads |-> 0]
  /\ casc = [t \in Threads |-> {}]
  /\ nIns = 0
  /\ nRemOK = 0
  /\ before = NoAdd

\* ------------------------------------------------------- calls and gate

\* A lock that does not wait for the mutex to be free.
lock_at_once(th) == TRUE

\* std::lock_guard<std::mutex> lock{ *_get_mutex() }: the caller goes on
\* only when the mutex is free, and owns it from then on.
CanLock(th) == gate = Free

\* A thread enters a call. A gated form first locks the mutex (the thread
\* waits until it can); an __unsafe form runs at once.
Enter(th, o) ==
  /\ Alive
  /\ pc[th] = "idle"
  /\ IF o.gated
       THEN /\ CanLock(th)
            /\ NoneUnsafe
            /\ gate' = th
       ELSE /\ Quiet
            /\ gate' = gate
  /\ op' = [op EXCEPT ![th] = [o EXCEPT !.pre = size__unsafe]]
  /\ casc' = [casc EXCEPT ![th] = {}]
  /\ before' = IF o.fn \in {"add", "add__unsafe"}
                 THEN [h |-> o.x, mapping |-> mapping, size |-> size__unsafe]
               ELSE IF /\ o.fn \in {"remove", "remove__unsafe"}
                       /\ before # NoAdd
                       /\ o.x = things[before.h].uuid
                 THEN before
               ELSE NoAdd

\* The call's body starts with frame f.
Start(th, f) ==
  /\ pc' = [pc EXCEPT ![th] = "run"]
  /\ stack' = [stack EXCEPT ![th] = <<f>>]
  /\ ret' = ret

\* The call's body, a single read of the mapping, returns v.
Answer(th, v) ==
  /\ pc' = [pc EXCEPT ![th] = "ret"]
  /\ ret' = [ret EXCEPT ![th] = v]
  /\ stack' = stack

\* std::make_unique<T>() followed by add / add__unsafe, up to the call of
\* add__unsafe's body: Thing() takes its uuid from _new_uuid, which yields
\* a fresh one or, when the platform call fails, "".
CallAdd(th, gated, minted, kind) ==
  /\ Len(things) < MaxThings
  /\ minted \/ MintCanFail
  /\ LET h == Len(things) + 1
         uuid == IF minted THEN h ELSE EmptyUuid
     IN  /\ things' = Append(things, [uuid |-> uuid, kind |-> kind])
         /\ life' = Append(life, "made")
         /\ Enter(th, [fn |-> IF gated THEN "add" ELSE "add__unsafe",
                       gated |-> gated, x |-> h, k |-> kind, pre |-> 0])
         /\ Start(th, Frame("add__unsafe", h))
  /\ UNCHANGED <<mapping, count, build, nIns, nRemOK>>

\* remove(uuid) / remove__unsafe(uuid), up to the call of remove__unsafe's
\* body.
CallRemove(th, gated, u) ==
  /\ Enter(th, [fn |-> IF gated THEN "remove" ELSE "remove__unsafe",
                gated |-> gated, x |-> u, k |-> "Thing", pre |-> 0])
  /\ Start(th, Frame("remove__unsafe", u))
  /\ UNCHANGED <<things, life, mapping, count, build, nIns, nRemOK>>

\* remove(Thing* ptr) with a pointer an earlier call returned: it passes
\* ptr->get_uuid() to remove__unsafe. When the Thing has been destroyed
\* since (by another thread, say, while this one waited for the mutex),
\* the read is of freed memory: here it still yields the old uuid.
CallRemovePtr(th, h) ==
  /\ h \in 1..Len(things)
  /\ life[h] \in {"owned", "dead"}
  /\ Enter(th, [fn |-> "remove_ptr", gated |-> TRUE, x |-> h, k |-> "Thing",
                pre |-> 0])
  /\ Start(th, Frame("remove__unsafe", things[h].uuid))
  /\ UNCHANGED <<things, life, mapping, count, build, nIns, nRemOK>>

\* The same read of freed memory, faulting.
CallRemoveDangling(th, h) ==
  /\ Alive
  /\ pc[th] = "idle"
  /\ CanLock(th)
  /\ NoneUnsafe
  /\ h \in 1..Len(things)
  /\ life[h] = "dead"
  /\ gate' = th
  /\ pc' = [pc EXCEPT ![th] = "crash"]
  /\ UNCHANGED <<things, life, mapping, count, build, op, stack, ret, casc, nIns,
                 nRemOK, before>>

\* _find_one_by_uuid<K>(uuid), lines 190-194: the locking resolve.
\* (get<K>, lines 327-331, calls get_unsafe, which is declared nowhere, so
\* no program can instantiate it.)
CallFindOne(th, K, u) ==
  /\ Enter(th, [fn |-> "find_one_by_uuid", gated |-> TRUE, x |-> u, k |-> K,
                pre |-> 0])
  /\ Answer(th, find_one_by_uuid__unsafe(K, u))
  /\ UNCHANGED <<things, life, mapping, count, build, nIns, nRemOK>>

\* get<K>(uuid), lines 327-331. Its body calls get_unsafe<T>(uuid); the
\* header declares get__unsafe and no get_unsafe, and argument-dependent
\* lookup (the argument is a std::string) finds none either, so a program
\* that uses get<K> is not built and the call has no result.
CallGetLocked(th, K, u) ==
  /\ Enter(th, [fn |-> "get", gated |-> TRUE, x |-> u, k |-> K, pre |-> 0])
  /\ Answer(th, Undeclared)
  /\ UNCHANGED <<things, life, mapping, count, build, nIns, nRemOK>>

\* A resolve that looks the uuid up with operator[], which makes an entry
\* for a key it does not find.
CallGetSubscript(th, K, u) ==
  /\ Enter(th, [fn |-> "get__unsafe", gated |-> FALSE, x |-> u, k |-> K,
                pre |-> 0])
  /\ Answer(th, get__unsafe(K, u))
  /\ mapping' = IF u \in DOMAIN mapping THEN mapping ELSE (u :> nullptr) @@ mapping
  /\ count' = IF u \in DOMAIN mapping THEN count ELSE count + 1
  /\ UNCHANGED <<things, life, build, nIns, nRemOK>>

\* get__unsafe<K>(uuid), lines 309-314.
CallGet(th, K, u) ==
  /\ Enter(th, [fn |-> "get__unsafe", gated |-> FALSE, x |-> u, k |-> K,
                pre |-> 0])
  /\ Answer(th, get__unsafe(K, u))
  /\ UNCHANGED <<things, life, mapping, count, build, nIns, nRemOK>>

\* size() / size__unsafe()
CallSize(th, gated) ==
  /\ Enter(th, [fn |-> IF gated THEN "size" ELSE "size__unsafe",
                gated |-> gated, x |-> 0, k |-> "Thing", pre |-> 0])
  /\ Answer(th, size__unsafe)
  /\ UNCHANGED <<things, life, mapping, count, build, nIns, nRemOK>>

\* list_entries(print) / list_entries__unsafe(print)
CallList(th, gated) ==
  /\ Enter(th, [fn |-> IF gated THEN "list_entries" ELSE "list_entries__unsafe",
                gated |-> gated, x |-> 0, k |-> "Thing", pre |-> 0])
  /\ Answer(th, list_entries__unsafe)
  /\ UNCHANGED <<things, life, mapping, count, build, nIns, nRemOK>>

\* What the end of a call does to the mutex: std::lock_guard's destructor
\* unlocks it, whatever the body returned.
Unlock(th) == IF op[th].gated THEN Free ELSE gate

\* The body has returned (or thrown): the caller has the result.
Return(th) ==
  /\ Alive
  /\ pc[th] = "ret"
  /\ gate' = Unlock(th)
  /\ pc' = [pc EXCEPT ![th] = "idle"]
  /\ op' = [op EXCEPT ![th] = NoOp]
  /\ ret' = [ret EXCEPT ![th] = 0]
  /\ casc' = [casc EXCEPT ![th] = {}]
  /\ before' = IF op[th].fn \in {"add", "add__unsafe"} THEN before ELSE NoAdd
  /\ UNCHANGED <<things, life, mapping, count, build, stack, nIns, nRemOK>>

\* ------------------------------------------------------------ the bodies

Running(th, fn) ==
  /\ Alive
  /\ pc[th] = "run"
  /\ stack[th] # <<>>
  /\ Top(th).fn = fn

\* The innermost call returns val: to its caller's frame, or, when it is
\* the body of the top-level call, to that call.
Finish(th, val) ==
  /\ stack' = [stack EXCEPT ![th] = Pop(th)]
  /\ IF Len(stack[th]) = 1
       THEN /\ pc' = [pc EXCEPT ![th] = "ret"]
            /\ ret' = [ret EXCEPT ![th] = val]
       ELSE UNCHANGED <<pc, ret>>

\* The innermost frame moves to step at and calls f.
Call(th, at, f) ==
  stack' = [stack EXCEPT ![th] =
              Append([stack[th] EXCEPT ![Len(stack[th])].at = at], f)]

\* (*_get_mapping())[uuid] = ptr: the entry is created or overwritten.
Assign(u, h) == (u :> h) @@ mapping

\* An erase that leaves the node where it is.
erase_nothing(u) == mapping

\* The tree without the node of key u.
Unlink(u) == [k \in DOMAIN mapping \ {u} |-> mapping[k]]

\* The memory of a destroyed Thing: only its stale bytes are left.
Freed(t) == [uuid |-> t.uuid, kind |-> "Thing"]

\* add__unsafe, lines 220-221: (*_get_mapping())[uuid] = std::move(ptr).
\* operator[] finds or creates the entry; the move assignment stores the
\* new pointer and then deletes the Thing the entry held, if any.
\* On an empty tree whose count is not 0 (libstdc++ after a nested
\* clear()) the insertion reads the key of the rightmost node, which is
\* the tree's header and has none: the read yields anything and the
\* insertion goes on, or it faults.
AddAssign(th) ==
  /\ Running(th, "add__unsafe")
  /\ Top(th).at = 1
  /\ LET h == Top(th).x
         u == things[h].uuid
         prev == find(u)
     IN  \/ /\ mapping' = Assign(u, h)
            /\ IF prev = nullptr
                 THEN /\ count' = count + 1
                      /\ life' = [life EXCEPT ![h] = "owned"]
                      /\ stack' = [stack EXCEPT ![th][Len(stack[th])].at = 2]
                 ELSE /\ count' = count
                      /\ life' = [life EXCEPT ![h] = "owned", ![prev] = "dying"]
                      /\ Call(th, 2, Frame("dtor", prev))
            /\ nIns' = nIns + 1
            /\ UNCHANGED pc
         \/ /\ DOMAIN mapping = {}
            /\ count # 0
            /\ pc' = [pc EXCEPT ![th] = "crash"]
            /\ UNCHANGED <<mapping, count, life, stack, nIns>>
  /\ UNCHANGED <<things, gate, build, op, ret, casc, nRemOK, before>>

\* add__unsafe, line 222: _get_mapping()->at(uuid), which throws
\* std::out_of_range when the key is not there; T is the class added.
AddReturn(th) ==
  /\ Running(th, "add__unsafe")
  /\ Top(th).at = 2
  /\ LET h == Top(th).x
         u == things[h].uuid
     IN  IF u \in DOMAIN mapping
           THEN Finish(th, dynamic_cast(op[th].k, mapping[u]))
           ELSE Finish(th, OutOfRange)
  /\ UNCHANGED <<things, life, mapping, count, gate, build, op, casc, nIns, nRemOK,
                 before>>

\* remove__unsafe, lines 350-353: the uuid is not in the mapping.
RemoveAbsent(th) ==
  /\ Running(th, "remove__unsafe")
  /\ Top(th).at = 1
  /\ get__unsafe("Thing", Top(th).x) = nullptr
  /\ Finish(th, FAILURE)
  /\ UNCHANGED <<things, life, mapping, count, gate, build, op, casc, nIns, nRemOK,
                 before>>

\* remove__unsafe, line 354: _get_mapping()->erase(uuid). The node is
\* taken out of the tree and its unique_ptr deletes the Thing; a build
\* that erases the whole map by clear() leaves the node in the tree while
\* the destructor runs.
RemoveErase(th) ==
  /\ Running(th, "remove__unsafe")
  /\ Top(th).at = 1
  /\ LET u == Top(th).x
         entry == get__unsafe("Thing", u)
     IN  /\ entry # nullptr
         /\ life[entry] # "dying"
         /\ mapping' = IF ErasesByClear(u) THEN mapping ELSE Unlink(u)
         /\ count' = IF ErasesByClear(u) \/ CountsLate THEN count ELSE count - 1
         /\ life' = [life EXCEPT ![entry] = "dying"]
         /\ Call(th, IF ErasesByClear(u) THEN 3 ELSE 2, Frame("dtor", entry))
  /\ UNCHANGED <<things, gate, build, pc, op, ret, casc, nIns, nRemOK, before>>

\* remove__unsafe finds, in the tree, the Thing whose destructor is
\* running (the clear() path) and deletes it again: the destructor calls
\* itself without end.
RemoveAgain(th) ==
  /\ Running(th, "remove__unsafe")
  /\ Top(th).at = 1
  /\ LET entry == get__unsafe("Thing", Top(th).x)
     IN  /\ entry # nullptr
         /\ life[entry] = "dying"
         /\ life' = [life EXCEPT ![entry] = "again"]
  /\ pc' = [pc EXCEPT ![th] = "crash"]
  /\ UNCHANGED <<things, mapping, count, gate, build, op, stack, ret, casc,
                 nIns, nRemOK, before>>

\* remove__unsafe, lines 354-355: erase returns (clear() resets the tree
\* and the count now; libstdc++ decrements the count now), and the call
\* returns SUCCESS.
RemoveDone(th) ==
  /\ Running(th, "remove__unsafe")
  /\ Top(th).at \in {2, 3}
  /\ mapping' = IF Top(th).at = 3 THEN <<>> ELSE mapping
  /\ count' = IF Top(th).at = 3 THEN 0
            ELSE IF CountsLate THEN count - 1 ELSE count
  /\ nRemOK' = nRemOK + 1
  /\ casc' = IF Nested(th) THEN [casc EXCEPT ![th] = @ \cup {Top(th).x}] ELSE casc
  /\ Finish(th, SUCCESS)
  /\ UNCHANGED <<things, life, gate, build, op, nIns, before>>

\* The destructor of a Child looks a uuid up with get__unsafe: its own,
\* or its parent's, to take itself off the parent's list of children.
DtorGet(th, u) ==
  /\ Running(th, "dtor")
  /\ things[Top(th).x].kind = "Child"
  /\ Top(th).at <= MaxRel
  /\ stack' = [stack EXCEPT ![th][Len(stack[th])].at = @ + 1]
  /\ UNCHANGED <<things, life, mapping, count, gate, build, pc, op, ret, casc,
                 nIns, nRemOK, before>>

\* The destructor of a Parent removes a uuid of its list of children with
\* remove__unsafe.
DtorRemove(th, u) ==
  /\ Running(th, "dtor")
  /\ things[Top(th).x].kind = "Parent"
  /\ Top(th).at <= MaxRel
  /\ Call(th, Top(th).at + 1, Frame("remove__unsafe", u))
  /\ UNCHANGED <<things, life, mapping, count, gate, build, pc, op, ret, casc,
                 nIns, nRemOK, before>>

\* A mutex that its owner can lock again: the locking call made by the
\* destructor runs, and its lock_guard unlocks the mutex when it returns.
DtorLockRecursive(th) ==
  /\ Running(th, "dtor")
  /\ op[th].gated
  /\ things[Top(th).x].kind # "Thing"
  /\ Top(th).at <= MaxRel
  /\ stack' = [stack EXCEPT ![th][Len(stack[th])].at = @ + 1]
  /\ gate' = Free
  /\ UNCHANGED <<things, life, mapping, count, build, pc, op, ret, casc, nIns,
                 nRemOK, before>>

\* The destructor of a subclass, run under a locking call, makes a
\* locking call itself (add, remove, size, list_entries): its lock_guard
\* locks the std::mutex the thread already owns, which the standard leaves
\* undefined. With the pthread mutex of libstdc++ and libc++ the thread
\* waits for itself for ever. The MSVC library reports the second lock
\* with a std::system_error, thrown before the call's body: either the
\* destructor catches it and goes on, or it leaves the destructor, which
\* is noexcept, and std::terminate ends the process.
DtorLock(th) ==
  /\ Running(th, "dtor")
  /\ op[th].gated
  /\ things[Top(th).x].kind # "Thing"
  /\ Top(th).at <= MaxRel
  /\ IF build # "msvc"
       THEN /\ pc' = [pc EXCEPT ![th] = "blocked"]
            /\ stack' = stack
       ELSE \/ /\ pc' = [pc EXCEPT ![th] = "crash"]
               /\ stack' = stack
            \/ /\ pc' = pc
               /\ stack' = [stack EXCEPT ![th][Len(stack[th])].at = @ + 1]
  /\ UNCHANGED <<things, life, mapping, count, gate, build, op, ret, casc, nIns,
                 nRemOK, before>>

\* The destructor returns (~Thing itself is empty) and the Thing's memory
\* is freed.
DtorEnd(th) ==
  /\ Running(th, "dtor")
  /\ life' = [life EXCEPT ![Top(th).x] = "dead"]
  /\ things' = [things EXCEPT ![Top(th).x] = Freed(@)]
  /\ Finish(th, 0)
  /\ UNCHANGED <<mapping, count, gate, build, op, casc, nIns, nRemOK, before>>

\* ------------------------------------------------------------------ Next

Next ==
  \E th \in Threads :
    \/ \E g \in BOOLEAN, m \in BOOLEAN, kind \in Kinds : CallAdd(th, g, m, kind)
    \/ \E g \in BOOLEAN, u \in Uuids : CallRemove(th, g, u)
    \/ \E h \in Handles : CallRemovePtr(th, h)
    \/ \E h \in Handles : CallRemoveDangling(th, h)
    \/ \E K \in Kinds, u \in Uuids : CallFindOne(th, K, u)
    \/ \E K \in Kinds, u \in Uuids : CallGetLocked(th, K, u)
    \/ \E K \in Kinds, u \in Uuids : CallGet(th, K, u)
    \/ \E g \in BOOLEAN : CallSize(th, g)
    \/ \E g \in BOOLEAN : CallList(th, g)
    \/ Return(th)
    \/ AddAssign(th)
    \/ AddReturn(th)
    \/ RemoveAbsent(th)
    \/ RemoveErase(th)
    \/ RemoveAgain(th)
    \/ RemoveDone(th)
    \/ \E u \in Uuids : DtorGet(th, u)
    \/ \E u \in Uuids : DtorRemove(th, u)
    \/ DtorLock(th)
    \/ DtorEnd(th)

Spec == Init /\ [][Next]_vars

\* The codex used through its locking forms alone, as add, remove, size,
\* list_entries and _find_one_by_uuid are meant to be used from threads.
\* The codex used as its documentation asks: a destructor calls only the
\* __unsafe forms.
NextDisciplined ==
  \E th \in Threads :
    \/ \E g \in BOOLEAN, m \in BOOLEAN, kind \in Kinds : CallAdd(th, g, m, kind)
    \/ \E g \in BOOLEAN, u \in Uuids : CallRemove(th, g, u)
    \/ \E h \in Handles : CallRemovePtr(th, h)
    \/ \E h \in Handles : CallRemoveDangling(th, h)
    \/ \E K \in Kinds, u \in Uuids : CallFindOne(th, K, u)
    \/ \E K \in Kinds, u \in Uuids : CallGetLocked(th, K, u)
    \/ \E K \in Kinds, u \in Uuids : CallGet(th, K, u)
    \/ \E g \in BOOLEAN : CallSize(th, g)
    \/ \E g \in BOOLEAN : CallList(th, g)
    \/ Return(th)
    \/ AddAssign(th)
    \/ AddReturn(th)
    \/ RemoveAbsent(th)
    \/ RemoveErase(th)
    \/ RemoveAgain(th)
    \/ RemoveDone(th)
    \/ \E u \in Uuids : DtorGet(th, u)
    \/ \E u \in Uuids : DtorRemove(th, u)
    \/ DtorEnd(th)

SpecDisciplined == Init /\ [][NextDisciplined]_vars

NextGated ==
  \E th \in Threads :
    \/ \E m \in BOOLEAN, kind \in Kinds : CallAdd(th, TRUE, m, kind)
    \/ \E u \in Uuids : CallRemove(th, TRUE, u)
    \/ \E h \in Handles : CallRemovePtr(th, h)
    \/ \E h \in Handles : CallRemoveDangling(th, h)
    \/ \E K \in Kinds, u \in Uuids : CallFindOne(th, K, u)
    \/ \E K \in Kinds, u \in Uuids : CallGetLocked(th, K, u)
    \/ CallSize(th, TRUE)
    \/ CallList(th, TRUE)
    \/ Return(th)
    \/ AddAssign(th)
    \/ AddReturn(th)
    \/ RemoveAbsent(th)
    \/ RemoveErase(th)
    \/ RemoveAgain(th)
    \/ RemoveDone(th)
    \/ \E u \in Uuids : DtorGet(th, u)
    \/ \E u \in Uuids : DtorRemove(th, u)
    \/ DtorLock(th)
    \/ DtorEnd(th)

SpecGated == Init /\ [][NextGated]_vars

\* ---------------------------------------------------------------- claims

\* C1: when add / add__unsafe of a Thing t has returned, the size is one
\* more than it was when the call began, and get__unsafe(t's uuid) is the
\* pointer the call returned.
C1_InsertGrowsAndResolves ==
  \A th \in Threads :
    (pc[th] = "ret" /\ op[th].fn \in {"add", "add__unsafe"}) =>
      /\ size__unsafe = op[th].pre + 1
      /\ get__unsafe("Thing", things[op[th].x].uuid) = ret[th]

\* C1, the case in which it does hold: an add of a uuid that was not a key
\* has returned.
C1_FreshInsertReturned ==
  \E th \in Threads :
    /\ pc[th] = "ret"
    /\ op[th].fn \in {"add", "add__unsafe"}
    /\ size__unsafe = op[th].pre + 1
    /\ ret[th] = op[th].x

\* C2: whenever no call is in progress, size() is the number of inserts
\* performed minus the number of removes (top-level or made by a
\* destructor) that returned SUCCESS.
C2_SizeIsInsertsMinusRemoves ==
  (\A t \in Threads : pc[t] = "idle") => size__unsafe = nIns - nRemOK

\* C3: a step that resolves, or removes, a uuid that is not a key of the
\* mapping yields nullptr, or FAILURE, and leaves the mapping, its count
\* and every Thing as they were; no destructor is started.
C3_AbsentLeavesMapping ==
  [][\A th \in Threads :
       LET resolves == /\ pc[th] = "idle"
                       /\ pc'[th] = "ret"
                       /\ op'[th].fn \in {"get__unsafe", "find_one_by_uuid"}
                       /\ op'[th].x \notin DOMAIN mapping
           removes == /\ pc[th] = "run"
                      /\ stack'[th] # stack[th]
                      /\ Top(th).fn = "remove__unsafe"
                      /\ Top(th).at = 1
                      /\ Top(th).x \notin DOMAIN mapping
       IN  /\ resolves => ret'[th] = nullptr
           /\ removes =>
                /\ Len(stack'[th]) = Len(stack[th]) - 1
                /\ Len(stack[th]) = 1 => pc'[th] = "ret" /\ ret'[th] = FAILURE
           /\ (resolves \/ removes) =>
                /\ mapping' = mapping
                /\ count' = count
                /\ things' = things
                /\ life' = life
                /\ nRemOK' = nRemOK
    ]_vars

\* C3's case: a remove of a uuid that is not a key has returned FAILURE
\* while the mapping holds another entry.
C3_AbsentRemoveReturned ==
  \E th \in Threads :
    /\ pc[th] = "ret"
    /\ op[th].fn \in {"remove", "remove__unsafe"}
    /\ op[th].x \notin DOMAIN mapping
    /\ ret[th] = FAILURE
    /\ DOMAIN mapping # {}
    /\ nRemOK = 0

\* C4: add__unsafe of a Thing whose uuid is already a key leaves the entry
\* of that key, the Thing it owns and the size as they were.
C4_CollisionLeavesEntry ==
  [][\A th \in Threads :
       (/\ pc[th] = "run"
        /\ stack'[th] # stack[th]
        /\ Top(th).fn = "add__unsafe"
        /\ Top(th).at = 1
        /\ things[Top(th).x].uuid \in DOMAIN mapping) =>
         /\ mapping' = mapping
         /\ life'[find(things[Top(th).x].uuid)] = "owned"
         /\ count' = count
    ]_vars

\* C5: while the destructor that remove__unsafe(u) started runs, u is
\* still a key of the mapping and get__unsafe(u) is the Thing being
\* destroyed; when the remove is a locking one, its thread owns the mutex.
C5_EntryPresentDuringHook ==
  \A th \in Threads : \A i \in 2..Len(stack[th]) :
    (stack[th][i].fn = "dtor" /\ stack[th][i - 1].fn = "remove__unsafe") =>
      /\ get__unsafe("Thing", stack[th][i - 1].x) = stack[th][i].x
      /\ op[th].gated => gate = th

\* C6: when remove(u) has returned SUCCESS and the destructors it ran
\* removed k further keys with remove__unsafe, the size is 1 + k less than
\* it was when the call began, and u and those k keys are not keys of the
\* mapping.
C6_CascadeShrinksSize ==
  \A th \in Threads :
    (/\ pc[th] = "ret"
     /\ op[th].fn \in {"remove", "remove_ptr"}
     /\ ret[th] = SUCCESS) =>
      /\ size__unsafe = op[th].pre - (1 + Cardinality(casc[th]))
      /\ get__unsafe("Thing", IF op[th].fn = "remove_ptr"
                                 THEN things[op[th].x].uuid
                                 ELSE op[th].x) = nullptr
      /\ \A u \in casc[th] : get__unsafe("Thing", u) = nullptr

\* C6, a cascade that does leave the size right (a build that counts the
\* node out before it destroys it).
C6_CascadeReturned ==
  \E th \in Threads :
    /\ pc[th] = "ret"
    /\ op[th].fn = "remove"
    /\ ret[th] = SUCCESS
    /\ casc[th] # {}
    /\ size__unsafe = op[th].pre - (1 + Cardinality(casc[th]))

\* C7: with threads calling the locking forms, at most one thread is
\* between locking and unlocking the mutex, and it is the mutex's owner;
\* the mutex is free whenever no call is in progress; and only the owner's
\* steps read or change the mapping and its count.
C7_GateExcludes ==
  /\ [](/\ \A t, o \in Threads : (pc[t] # "idle" /\ pc[o] # "idle") => t = o
        /\ \A t \in Threads : pc[t] # "idle" => gate = t
        /\ (\A t \in Threads : pc[t] = "idle") => gate = Free)
  /\ [][\A t \in Threads :
          (pc'[t] # pc[t] \/ stack'[t] # stack[t])
            => (IF pc[t] = "idle" THEN gate = Free /\ gate' = t ELSE gate = t)
     ]_vars
  /\ [][(mapping' # mapping \/ count' # count)
          => (gate # Free /\ gate' = gate /\ pc[gate] = "run")
     ]_vars

\* C7's case: a thread's remove has returned FAILURE and still owns the
\* mutex, which it locked after an earlier, successful remove had
\* unlocked it.
C7_FailedRemoveHoldsGate ==
  \E t \in Threads :
    /\ pc[t] = "ret"
    /\ op[t].fn = "remove"
    /\ ret[t] = FAILURE
    /\ gate = t
    /\ nRemOK > 0

\* C8: with threads calling the locking forms, whenever all calls have
\* returned the state is that of the calls taken one at a time: the size
\* is inserts minus successful removes, every Thing inserted and not
\* removed is what its uuid resolves to, every key resolves to a Thing
\* that has not been destroyed, and no more removes succeeded than inserts
\* were made.
C8_SerialOutcome ==
  (\A t \in Threads : pc[t] = "idle") =>
    /\ size__unsafe = nIns - nRemOK
    /\ size__unsafe = Cardinality(DOMAIN mapping)
    /\ nRemOK <= nIns
    /\ \A h \in 1..Len(things) :
         life[h] = "owned" => get__unsafe("Thing", things[h].uuid) = h
    /\ \A u \in DOMAIN mapping : life[mapping[u]] = "owned"

\* C9: when a resolve of a key u for kind K has returned, the result is
\* the Thing stored under u if that Thing's class is K or derives from K
\* (every class derives from Thing), and nullptr otherwise.
C9_ResolveChecksKind ==
  \A th \in Threads :
    (/\ pc[th] = "ret"
     /\ op[th].fn \in {"get__unsafe", "find_one_by_uuid"}
     /\ op[th].x \in DOMAIN mapping) =>
      LET t == mapping[op[th].x]
          K == op[th].k
      IN  /\ (things[t].kind = K \/ K = "Thing") => ret[th] = t
          /\ ~(things[t].kind = K \/ K = "Thing") => ret[th] = nullptr
          /\ K = "Thing" => ret[th] # nullptr

\* C9's case: a resolve of a present key for a kind its Thing is not has
\* returned nullptr.
C9_WrongKindResolved ==
  \E th \in Threads :
    /\ pc[th] = "ret"
    /\ op[th].fn \in {"get__unsafe", "find_one_by_uuid"}
    /\ op[th].x \in DOMAIN mapping
    /\ things[mapping[op[th].x]].kind = "Child"
    /\ op[th].k = "Parent"
    /\ ret[th] = nullptr

\* C10: a uuid that resolves before and after a step resolves to the same
\* Thing; the Thing a uuid resolves to changes only through the uuid not
\* resolving, which only a remove of it brings about.
C10_ResolveIsStable ==
  [][\A u \in Uuids :
       (get__unsafe("Thing", u) # nullptr /\ get__unsafe("Thing", u)' # nullptr)
         => get__unsafe("Thing", u)' = get__unsafe("Thing", u)
    ]_vars

\* C11: every key of the mapping is a non-empty uuid and is the uuid of
\* the Thing stored under it, and no two Things the codex owns carry the
\* same uuid.
C11_KeysNonEmptyUnique ==
  /\ \A u \in DOMAIN mapping :
       /\ u # EmptyUuid
       /\ things[mapping[u]].uuid = u
  /\ \A g, h \in 1..Len(things) :
       (life[g] = "owned" /\ life[h] = "owned" /\ things[g].uuid = things[h].uuid)
         => g = h

\* C11, where it does hold: two Things with minted uuids are owned under
\* their own, different keys.
C11_TwoMintedOwned ==
  /\ Cardinality(DOMAIN mapping) = 2
  /\ \A u \in DOMAIN mapping : u # EmptyUuid /\ things[mapping[u]].uuid = u

\* C12: when _new_uuid failed for the Thing an add was given, the add has
\* not returned that Thing, the Thing is not in the mapping, and the size
\* is what it was when the call began.
C12_MintFailureSurfaced ==
  \A th \in Threads :
    (/\ pc[th] = "ret"
     /\ op[th].fn \in {"add", "add__unsafe"}
     /\ things[op[th].x].uuid = EmptyUuid) =>
      /\ ret[th] # op[th].x
      /\ get__unsafe("Thing", EmptyUuid) # op[th].x
      /\ size__unsafe = op[th].pre

\* C13: when a remove of u returns SUCCESS, u is not a key; a uuid that is
\* not a key becomes one only by an add of a Thing with that uuid; and a
\* remove of a uuid that is not a key returns FAILURE and changes nothing.
\* So after a successful remove of u every remove of u fails, without
\* effect, until u is inserted again.
C13_RemoveOnceThenFailure ==
  /\ [][\A th \in Threads :
          (/\ pc[th] = "run"
           /\ Top(th).fn = "remove__unsafe"
           /\ Top(th).at \in {2, 3}
           /\ Len(stack'[th]) < Len(stack[th])) =>
            /\ Top(th).x \notin DOMAIN mapping'
            /\ Len(stack[th]) = 1 => pc'[th] = "ret" /\ ret'[th] = SUCCESS
     ]_vars
  /\ [][\A u \in Uuids :
          (u \notin DOMAIN mapping /\ u \in DOMAIN mapping') =>
            \E th \in Threads :
              /\ pc[th] = "run"
              /\ Top(th).fn = "add__unsafe"
              /\ things[Top(th).x].uuid = u
     ]_vars
  /\ [][\A th \in Threads :
          (/\ pc[th] = "run"
           /\ Top(th).fn = "remove__unsafe"
           /\ Top(th).at = 1
           /\ Top(th).x \notin DOMAIN mapping
           /\ stack'[th] # stack[th]) =>
            /\ Len(stack'[th]) = Len(stack[th]) - 1
            /\ Len(stack[th]) = 1 => pc'[th] = "ret" /\ ret'[th] = FAILURE
            /\ <<mapping, count, things, life, nRemOK>>'
                 = <<mapping, count, things, life, nRemOK>>
     ]_vars

\* C13's case: a remove of the uuid of a Thing that an earlier remove
\* destroyed has returned FAILURE.
C13_SecondRemoveFailed ==
  \E th \in Threads : \E h \in 1..Len(things) :
    /\ pc[th] = "ret"
    /\ op[th].fn \in {"remove", "remove__unsafe"}
    /\ op[th].x = things[h].uuid
    /\ op[th].x # EmptyUuid
    /\ life[h] = "dead"
    /\ ret[th] = FAILURE

\* C14: when an add of a Thing t was followed, with no other call between,
\* by a remove of t's uuid that returned SUCCESS, and no destructor
\* removed anything else, the size and the mapping are what they were
\* when the add began: t's uuid is no key and every other uuid resolves
\* as it did.
C14_InsertThenRemoveRestores ==
  \A th \in Threads :
    (/\ pc[th] = "ret"
     /\ op[th].fn \in {"remove", "remove__unsafe"}
     /\ before # NoAdd
     /\ ret[th] = SUCCESS
     /\ casc[th] = {}) =>
      /\ size__unsafe = before.size
      /\ get__unsafe("Thing", op[th].x) = nullptr
      /\ \A u \in Uuids \ {op[th].x} :
           get__unsafe("Thing", u)
             = (IF u \in DOMAIN before.mapping THEN before.mapping[u] ELSE nullptr)

\* C14, where it does hold: the round trip of a Thing with a fresh uuid,
\* made while the codex holds another Thing.
C14_RoundTripRestored ==
  \E th \in Threads :
    /\ pc[th] = "ret"
    /\ op[th].fn \in {"remove", "remove__unsafe"}
    /\ before # NoAdd
    /\ ret[th] = SUCCESS
    /\ before.mapping # <<>>
    /\ mapping = before.mapping
    /\ size__unsafe = before.size

\* C15: a step that resolves a uuid (get__unsafe or _find_one_by_uuid, the
\* uuid a key or not, the kind the Thing's or not) leaves the mapping, its
\* count and the Things as they were and starts no destructor, and the
\* same resolve in the state it leaves yields the result it returned.
C15_ResolveChangesNothing ==
  [][\A th \in Threads :
       (/\ pc[th] = "idle"
        /\ pc'[th] = "ret"
        /\ op'[th].fn \in {"get__unsafe", "find_one_by_uuid"}) =>
         /\ <<mapping, count, things, life, stack, nIns, nRemOK>>'
              = <<mapping, count, things, life, stack, nIns, nRemOK>>
         /\ \A K \in Kinds, u \in Uuids :
              (op'[th].k = K /\ op'[th].x = u) =>
                ret'[th] = IF op'[th].fn = "get__unsafe"
                             THEN get__unsafe(K, u)'
                             ELSE find_one_by_uuid__unsafe(K, u)'
    ]_vars

\* C15's case: a resolve of a key for a subclass has returned the Thing
\* and the codex holds what it held.
C15_SubclassResolved ==
  \E th \in Threads :
    /\ pc[th] = "ret"
    /\ op[th].fn \in {"get__unsafe", "find_one_by_uuid"}
    /\ op[th].k # "Thing"
    /\ ret[th] # nullptr
    /\ ret[th] = find(op[th].x)
    /\ size__unsafe = op[th].pre

\* C16: a locking call is its __unsafe counterpart run by the owner of
\* the mutex: while it runs, its thread owns the mutex and its body is the
\* counterpart's, called with the same argument (remove(Thing*) with the
\* Thing's uuid); when a locking size, list_entries, _find_one_by_uuid<K>
\* or get<K> has returned, the result is what size__unsafe,
\* list_entries__unsafe, _find_one_by_uuid__unsafe<K> or get__unsafe<K>
\* yields in that state.
C16_LockingIsUnsafeUnderGate ==
  \A th \in Threads :
    (op[th].gated /\ pc[th] \in {"run", "ret"}) =>
      /\ gate = th
      /\ pc[th] = "run" =>
           /\ stack[th][1].fn = (IF op[th].fn = "add" THEN "add__unsafe"
                                                     ELSE "remove__unsafe")
           /\ stack[th][1].x = (IF op[th].fn = "remove_ptr"
                                  THEN things[op[th].x].uuid
                                  ELSE op[th].x)
      /\ (pc[th] = "ret" /\ op[th].fn = "size") => ret[th] = size__unsafe
      /\ (pc[th] = "ret" /\ op[th].fn = "list_entries")
           => ret[th] = list_entries__unsafe
      /\ (pc[th] = "ret" /\ op[th].fn = "find_one_by_uuid")
           => ret[th] = find_one_by_uuid__unsafe(op[th].k, op[th].x)
      /\ (pc[th] = "ret" /\ op[th].fn = "get")
           => ret[th] = get__unsafe(op[th].k, op[th].x)

\* C16, where it does hold: remove(Thing*) runs remove__unsafe with the
\* Thing's uuid, under the mutex.
C16_RemoveByPointerRuns ==
  \E th \in Threads :
    /\ pc[th] = "run"
    /\ op[th].fn = "remove_ptr"
    /\ gate = th
    /\ stack[th][1] = [fn |-> "remove__unsafe", x |-> things[op[th].x].uuid,
                       at |-> 2]

\* C17, as claimed: a destructor that makes a locking call under a
\* locking remove blocks its thread with the mutex owned, and from then on
\* no thread takes a step: the remove does not return, the mutex is not
\* unlocked and no other call begins.
C17_RelockBlocksForever ==
  /\ [][\A th \in Threads :
          (DtorLock(th) /\ op[th].fn \in {"remove", "remove_ptr"})
            => (pc'[th] = "blocked" /\ gate' = th)]_vars
  /\ [][\A th \in Threads : pc[th] # "blocked"]_vars

\* C17, as the code has it: the locking call a destructor makes under a
\* locking call never runs its body and never unlocks the mutex, which
\* stays with the thread; with the pthread mutex the thread blocks, and
\* from a state with a blocked thread no thread takes a step; with the
\* MSVC library the lock fails instead (the destructor goes on, or the
\* process ends).
C17_RelockNeverAcquires ==
  /\ [][\A th \in Threads :
          DtorLock(th) =>
            /\ gate = th
            /\ gate' = th
            /\ <<mapping, count, things, life, ret>>'
                 = <<mapping, count, things, life, ret>>
            /\ Len(stack'[th]) = Len(stack[th])
            /\ build # "msvc" => pc'[th] = "blocked"
            /\ build = "msvc" => pc'[th] \in {"run", "crash"}
     ]_vars
  /\ [][\A th \in Threads : pc[th] # "blocked"]_vars

\* C17's case: the thread of a locking remove is blocked in a destructor,
\* owning the mutex, while another thread is idle.
C17_BlockedInHook ==
  \E th, o \in Threads :
    /\ pc[th] = "blocked"
    /\ op[th].fn = "remove"
    /\ Top(th).fn = "dtor"
    /\ gate = th
    /\ pc[o] = "idle"

\* C18: a locking remove whose destructors call only __unsafe forms runs
\* to its return: its thread is running or has the result, never stopped
\* (a remove__unsafe of the Thing whose destructor is running does not
\* start the destructor again).
C18_RemoveRunsToReturn ==
  \A th \in Threads :
    op[th].fn \in {"remove", "remove_ptr"} => pc[th] \in {"run", "ret"}

\* C18, where it does hold: two Parents whose destructors remove each
\* other; the remove of one has returned SUCCESS with both destroyed.
C18_CycleReturned ==
  \E th \in Threads :
    /\ pc[th] = "ret"
    /\ op[th].fn = "remove"
    /\ ret[th] = SUCCESS
    /\ Len(things) = 2
    /\ \A h \in 1..Len(things) : life[h] = "dead"
    /\ nRemOK = 2

\* C19: no Thing's destructor is started a second time; and whenever no
\* call is in progress, every Thing that was inserted is either owned and
\* stored under its uuid, never having had its destructor run, or is not
\* in the mapping and was destroyed once.
C19_DestroyedExactlyOnce ==
  /\ \A h \in 1..Len(things) : life[h] # "again"
  /\ (\A t \in Threads : pc[t] = "idle") =>
       \A h \in 1..Len(things) :
         \/ life[h] = "owned" /\ get__unsafe("Thing", things[h].uuid) = h
         \/ life[h] = "dead" /\ get__unsafe("Thing", things[h].uuid) # h

\* C19, where it does hold: an add under a uuid that was a key has
\* returned, and the Thing it replaced was destroyed once.
C19_ReplacedDestroyedOnce ==
  \E th \in Threads : \E h \in 1..Len(things) :
    /\ pc[th] = "ret"
    /\ op[th].fn \in {"add", "add__unsafe"}
    /\ h # op[th].x
    /\ things[h].uuid = things[op[th].x].uuid
    /\ life[h] = "dead"
    /\ life[op[th].x] = "owned"

\* C20: a step that lists the codex (list_entries or
\* list_entries__unsafe) leaves the mapping, its count and the Things as
\* they were; what it returns is the frame line, the "Codex:" header, one
\* row for every key of the mapping and no other row, each with its key
\* and the representation of the Thing stored under it, and the frame
\* line again; for an empty mapping, those three lines alone.
C20_ListHasOneRowPerEntry ==
  [][\A th \in Threads :
       (/\ pc[th] = "idle"
        /\ pc'[th] = "ret"
        /\ op'[th].fn \in {"list_entries", "list_entries__unsafe"}) =>
         LET out == ret'[th]
             n == Cardinality(DOMAIN mapping)
         IN  /\ <<mapping, count, things, life, stack>>'
                  = <<mapping, count, things, life, stack>>
             /\ Len(out) = n + 3
             /\ out[1] = "line"
             /\ out[2] = "Codex:"
             /\ out[n + 3] = "line"
             /\ \A u \in DOMAIN mapping :
                  \E i \in 3..(n + 2) :
                    /\ out[i].key = u
                    /\ out[i].repr.uuid = things[mapping[u]].uuid
                    /\ out[i].repr.name = things[mapping[u]].kind
             /\ \A i, j \in 3..(n + 2) : out[i].key = out[j].key => i = j
    ]_vars

\* C20's case: a listing of a codex with two entries has returned.
C20_TwoRowsListed ==
  \E th \in Threads :
    /\ pc[th] = "ret"
    /\ op[th].fn \in {"list_entries", "list_entries__unsafe"}
    /\ Cardinality(DOMAIN mapping) = 2
    /\ Len(ret[th]) = 5

====
